---- MODULE Spec2Model ----
(***************************************************************************)
(* The three host programs of pymeflib's XPM loader experiment:            *)
(*   "A"  src/pymeflib/src/xpm_loader.c lines 1-22   (loader + main)       *)
(*   "B"  src/pymeflib/src/xpm_loader.c lines 24-67  (loader + main, loop) *)
(*   "C"  src/unnamed/part_000                       (main calls libXpm)   *)
(* Each run is one process: main is started with argv, calls               *)
(* XpmReadFileToData (directly or through loader), prints rows of the      *)
(* returned string table and terminates.  libXpm itself is not part of the *)
(* repository; its call is modelled by its contract (section 4.1, 6 and 7  *)
(* of the specification).                                                  *)
(***************************************************************************)
EXTENDS Integers, Sequences, FiniteSets, TLC

\* ---------------------------------------------------------------- bounds
MaxWidth == 2
MaxHeight == 11
MaxColors == 2
MaxCpp == 2

\* ------------------------------------------------------ program constants
\* xpm_loader.c:47  height = 13;
FixedHeight == 13
\* part_000:17  data[9]
FixedRow == 9

VARIABLES
    variant,    \* which host program runs
    argv1,      \* argv[1]: "NULL" when no positional argument was given
    file,       \* what is stored under the path (or what the parser finds)
    pc,         \* position of main
    err,        \* main's local err
    data,       \* main's local data (char **)
    height,     \* variant B: main's local height
    i,          \* variant B: main's loop counter
    xpmErr,     \* value XpmReadFileToData returned
    parserArg,  \* filename XpmReadFileToData was called with ("none": not called)
    reads,      \* indices i for which main evaluated data[i]
    out,        \* lines written to standard output
    errout,     \* lines written to standard error
    live,       \* heap blocks of the handle still allocated
    released,   \* number of release (XpmFree) calls made on the handle
    term,       \* "running", "exited" or "signalled"
    status      \* exit status once term = "exited"

vars == <<variant, argv1, file, pc, err, data, height, i, xpmErr, parserArg,
          reads, out, errout, live, released, term, status>>

Variants == {"A", "B", "C"}

\* ------------------------------------------------------------ input files
MissingFile == [kind |-> "missing", w |-> 0, h |-> 0, nc |-> 0, cpp |-> 0]
InvalidFile == [kind |-> "invalid", w |-> 0, h |-> 0, nc |-> 0, cpp |-> 0]
WellFormed ==
    {[kind |-> "ok", w |-> w, h |-> h, nc |-> nc, cpp |-> cpp] :
        w \in 1..MaxWidth, h \in 1..MaxHeight, nc \in 1..MaxColors, cpp \in 1..MaxCpp}
Files == {MissingFile, InvalidFile} \cup WellFormed

\* ------------------------------------------------- libXpm (external call)
XpmSuccess == 0
ErrCodes == {-1, -2, -3}
XpmGetErrorString(e) ==
    CASE e = -1 -> "XpmOpenFailed"
      [] e = -2 -> "XpmFileInvalid"
      [] e = -3 -> "XpmNoMemory"
      [] OTHER  -> "Invalid XpmError"

HeaderRow(f) == <<f.w, f.h, f.nc, f.cpp>>
ColorRow(f, k) == <<k, 0, k>>
PixelRow(f, y) == [x \in 1..(f.w * f.cpp) |-> ((x + y) % f.nc) + 1]
RowCount(f) == 1 + f.nc + f.h
Rows(f) ==
    [n \in 1..RowCount(f) |->
        IF n = 1 THEN HeaderRow(f)
        ELSE IF n <= 1 + f.nc THEN ColorRow(f, n - 1)
        ELSE PixelRow(f, n - 1 - f.nc)]

Indeterminate == [valid |-> FALSE, rows |-> <<>>]
Handle(f) == [valid |-> TRUE, rows |-> Rows(f)]

\* The results XpmReadFileToData(filename, &data) can give: the error code and
\* the value left in the output parameter.
XpmReadFileToData(filename, f) ==
    LET fail(e) == [err |-> e, data |-> Indeterminate]
        ok      == [err |-> XpmSuccess, data |-> Handle(f)]
    IN  IF filename = "NULL"
        THEN {fail(e) : e \in ErrCodes} \cup (IF f.kind = "ok" THEN {ok} ELSE {})
        ELSE CASE f.kind = "missing" -> {fail(-1)}
               [] f.kind = "invalid" -> {fail(-2)}
               [] OTHER              -> {ok, fail(-3)}

\* ----------------------------------------------------------------- state
Init ==
    /\ variant \in Variants
    /\ argv1 \in {"NULL", "file.xpm"}
    /\ file \in Files
    /\ pc = "start"
    /\ err = 0
    /\ data = Indeterminate
    /\ height = 0
    /\ i = 0
    /\ xpmErr = 0
    /\ parserArg = "none"
    /\ reads = {}
    /\ out = <<>>
    /\ errout = <<>>
    /\ live = 0
    /\ released = 0
    /\ term = "running"
    /\ status = 0

\* -------------------------------------------------------------- helpers
\* A loader that hands the library's code through: return err;
LoaderReturn_PassThrough(e) == e

\* if( err ){ ...; return 1; } return 0;
LoaderReturn(e) == IF e # XpmSuccess THEN 1 ELSE 0

\* A loader that reports the message and then a second, summary line.
LoaderErrLines_Twice(e) ==
    IF e # 0 THEN << <<XpmGetErrorString(e)>>, <<"load failed">> >> ELSE <<>>

\* if( err ){ fprintf(stderr, "%s\n", XpmGetErrorString(err)); ... }
LoaderErrLines(e) == IF e # XpmSuccess THEN << <<XpmGetErrorString(e)>> >> ELSE <<>>

\* int loader(char *filename, char ***data): every result the call can have,
\* with the line it wrote to standard error.
loader(filename, f) ==
    {[ret |-> LoaderReturn(r.err), xerr |-> r.err, data |-> r.data,
      lines |-> LoaderErrLines(r.err)] : r \in XpmReadFileToData(filename, f)}

\* Heap blocks a handle owns: one buffer per row plus the row-index array.
Blocks(d) == IF d.valid THEN Len(d.rows) + 1 ELSE 0

\* Evaluating data[idx] and handing it to printf("%s").  Inside the table the
\* row is read; outside it (or through an indeterminate data) the behaviour is
\* undefined: the process is killed by a signal, or some bytes are printed.
ReadRow(d, idx) ==
    IF d.valid /\ idx < Len(d.rows)
    THEN {[crash |-> FALSE, garbage |-> FALSE, text |-> d.rows[idx + 1]]}
    ELSE {[crash |-> TRUE, garbage |-> FALSE, text |-> <<>>],
          [crash |-> FALSE, garbage |-> TRUE, text |-> <<>>]}

Line(fmt, r) == [fmt |-> fmt, garbage |-> r.garbage, text |-> r.text]

\* printf(fmt, data[idx]) followed by a move to position next.
PrintRow(fmt, idx, next) ==
    \E r \in ReadRow(data, idx) :
        /\ reads' = reads \cup {idx}
        /\ IF r.crash
           THEN /\ pc' = "done"
                /\ term' = "signalled"
                /\ out' = out
           ELSE /\ pc' = next
                /\ term' = term
                /\ out' = Append(out, Line(fmt, r))

\* main returns v (or reaches its closing brace, which returns 0).
Exit(v) ==
    /\ pc' = "done"
    /\ term' = "exited"
    /\ status' = v

\* ------------------------------------------------- variant A: lines 15-22
\* err = loader(argv[1], &data);
A_CallLoader ==
    /\ variant = "A" /\ pc = "start"
    /\ \E r \in loader(argv1, file) :
        /\ err' = r.ret
        /\ data' = r.data
        /\ xpmErr' = r.xerr
        /\ errout' = errout \o r.lines
        /\ live' = Blocks(r.data)
    /\ parserArg' = argv1
    /\ pc' = "A_printf"
    /\ UNCHANGED <<variant, argv1, file, height, i, reads, out, released, term, status>>

\* printf("info: [%s]\n", data[0]);
A_PrintInfo ==
    /\ variant = "A" /\ pc = "A_printf"
    /\ PrintRow("info: [%s]", 0, "A_end")
    /\ UNCHANGED <<variant, argv1, file, err, data, height, i, xpmErr, parserArg,
                   errout, live, released, status>>

\* closing brace of main
A_Return ==
    /\ variant = "A" /\ pc = "A_end"
    /\ Exit(0)
    /\ UNCHANGED <<variant, argv1, file, err, data, height, i, xpmErr, parserArg,
                   reads, out, errout, live, released>>

\* ------------------------------------------------- variant B: lines 40-57
\* err = loader(argv[1], &data, &width, &height); height = 13;
B_CallLoader ==
    /\ variant = "B" /\ pc = "start"
    /\ \E r \in loader(argv1, file) :
        /\ err' = r.ret
        /\ data' = r.data
        /\ xpmErr' = r.xerr
        /\ errout' = errout \o r.lines
        /\ live' = Blocks(r.data)
    /\ parserArg' = argv1
    /\ height' = FixedHeight
    /\ pc' = "B_printf"
    /\ UNCHANGED <<variant, argv1, file, i, reads, out, released, term, status>>

\* printf("AA=%s=AA\n", data[0]); int i; i = 0
B_PrintAA ==
    /\ variant = "B" /\ pc = "B_printf"
    /\ PrintRow("AA=%s=AA", 0, "B_loop")
    /\ i' = 0
    /\ UNCHANGED <<variant, argv1, file, err, data, height, xpmErr, parserArg,
                   errout, live, released, status>>

\* A loop that walks the table by advancing data itself: printf(.., *data++).
B_LoopStep_Advance ==
    /\ variant = "B" /\ pc = "B_loop"
    /\ i < height
    /\ PrintRow("BB=~%s=~", 0, "B_loop")
    /\ i' = i + 1
    /\ data' = [data EXCEPT !.rows = IF @ = <<>> THEN @ ELSE Tail(@)]
    /\ UNCHANGED <<variant, argv1, file, err, height, xpmErr, parserArg,
                   errout, live, released, status>>

\* for (...; i < height; i++) printf("BB=~%s=~\n", data[i]);
B_LoopStep ==
    /\ variant = "B" /\ pc = "B_loop"
    /\ i < height
    /\ PrintRow("BB=~%s=~", i, "B_loop")
    /\ i' = i + 1
    /\ UNCHANGED <<variant, argv1, file, err, data, height, xpmErr, parserArg,
                   errout, live, released, status>>

\* loop exit and closing brace of main
B_Return ==
    /\ variant = "B" /\ pc = "B_loop"
    /\ ~(i < height)
    /\ Exit(0)
    /\ UNCHANGED <<variant, argv1, file, err, data, height, i, xpmErr, parserArg,
                   reads, out, errout, live, released>>

\* ---------------------------------------------- variant C: part_000 7-18
\* err = XpmReadFileToData(argv[1], &data);
C_Load ==
    /\ variant = "C" /\ pc = "start"
    /\ \E r \in XpmReadFileToData(argv1, file) :
        /\ err' = r.err
        /\ data' = r.data
        /\ xpmErr' = r.err
        /\ live' = Blocks(r.data)
    /\ parserArg' = argv1
    /\ pc' = "C_check"
    /\ UNCHANGED <<variant, argv1, file, height, i, reads, out, errout, released,
                   term, status>>

\* if( err ){ fprintf(stderr,"%s: %s\n",argv[0],XpmGetErrorString(err)); return 1; }
C_Fail ==
    /\ variant = "C" /\ pc = "C_check"
    /\ err # 0
    /\ errout' = Append(errout, <<"argv[0]", XpmGetErrorString(err)>>)
    /\ Exit(1)
    /\ UNCHANGED <<variant, argv1, file, err, data, height, i, xpmErr, parserArg,
                   reads, out, live, released>>

\* printf("size: %lu, %lu, %lu\n", sizeof(data), sizeof(*data), sizeof(**data));
C_PrintSize ==
    /\ variant = "C" /\ pc = "C_check"
    /\ ~(err # 0)
    /\ out' = Append(out, [fmt |-> "size: %lu, %lu, %lu", garbage |-> FALSE, text |-> <<>>])
    /\ pc' = "C_printf"
    /\ UNCHANGED <<variant, argv1, file, err, data, height, i, xpmErr, parserArg,
                   reads, errout, live, released, term, status>>

\* printf("AA=%s=AA\n", data[9]);
C_PrintAA ==
    /\ variant = "C" /\ pc = "C_printf"
    /\ PrintRow("AA=%s=AA", FixedRow, "C_end")
    /\ UNCHANGED <<variant, argv1, file, err, data, height, i, xpmErr, parserArg,
                   errout, live, released, status>>

\* closing brace of main
C_Return ==
    /\ variant = "C" /\ pc = "C_end"
    /\ Exit(0)
    /\ UNCHANGED <<variant, argv1, file, err, data, height, i, xpmErr, parserArg,
                   reads, out, errout, live, released>>

Next ==
    \/ A_CallLoader \/ A_PrintInfo \/ A_Return
    \/ B_CallLoader \/ B_PrintAA \/ B_LoopStep \/ B_Return
    \/ C_Load \/ C_Fail \/ C_PrintSize \/ C_PrintAA \/ C_Return

Spec == Init /\ [][Next]_vars

TypeOK ==
    /\ variant \in Variants
    /\ pc \in {"start", "A_printf", "A_end", "B_printf", "B_loop",
               "C_check", "C_printf", "C_end", "done"}
    /\ err \in ErrCodes \cup {0, 1}
    /\ term \in {"running", "exited", "signalled"}
    /\ status \in {0, 1}
    /\ i \in 0..FixedHeight
    /\ released \in Nat

\* ================================================================ claims
Called == parserArg # "none"
LoadFailed == Called /\ xpmErr # 0
LoadSucceeded == Called /\ xpmErr = 0

\* C1: in every variant, a run in which the load reported an error ends with
\* exit status 1 and with no other outcome.
C1_FailedLoadExitsWithOne ==
    (pc = "done" /\ LoadFailed) => (term = "exited" /\ status = 1)

\* C2: once the load has returned an error, main reads no row data[i] of the
\* output parameter.
C2_NoRowReadAfterFailedLoad ==
    LoadFailed => reads = {}

\* C3: after a successful load every row index main reads lies in
\* [0, row_count), row_count = 1 + num_colors + height of the file's header.
C3_ReadsWithinRowCount ==
    LoadSucceeded => \A k \in reads : 0 <= k /\ k < 1 + file.nc + file.h

\* The value main holds for a failure with library code e.
CallerValue(v, e) == IF v = "C" THEN e ELSE LoaderReturn(e)

C7_ReleasedExactlyOnce ==
    (pc = "done" /\ LoadSucceeded) => (released = 1 /\ live = 0)

\* C8 (as stated): a failed load leaves exactly one line on standard error,
\* naming the operation and carrying the library's message; a successful one
\* leaves standard error empty.
C8_OneLineNamingOperation ==
    pc = "done" =>
        IF xpmErr # 0
        THEN errout = << <<"argv[0]", XpmGetErrorString(xpmErr)>> >>
        ELSE errout = <<>>

\* C8 (amended): a failed load leaves exactly one line on standard error and
\* that line ends with the library's message; only main of part_000 puts the
\* program's name in front of it, loader writes the message alone.  A
\* successful load leaves standard error empty.
C8_OneLineWithMessage ==
    pc = "done" =>
        IF xpmErr # 0
        THEN /\ Len(errout) = 1
             /\ errout[1][Len(errout[1])] = XpmGetErrorString(xpmErr)
             /\ (Len(errout[1]) = 2) <=> (variant = "C")
             /\ (Len(errout[1]) = 1) <=> (variant # "C")
        ELSE errout = <<>>

C8_Witness ==
    /\ pc = "done" /\ variant = "B" /\ xpmErr = -1
    /\ errout = << <<"XpmOpenFailed">> >>

\* C9: the parser is never called with a null path; started without a
\* positional argument the program does not call it.
C9_ParserNeverGetsNull ==
    parserArg # "NULL"

\* C10: once a load has succeeded no later step of the program changes the
\* content or the number of the handle's rows, and no step (the load included)
\* changes the input file.
C10_HandleImmutable ==
    [][/\ file' = file
       /\ LoadSucceeded => (data' = data /\ Len(data'.rows) = Len(data.rows))]_vars

C10_Witness ==
    /\ variant = "B" /\ LoadSucceeded /\ data.valid
    /\ i >= 3 /\ Len(out) >= 4

====
